---- MODULE Spec2Model ----
(***************************************************************************)
(* Model of pkg/image/nodeserver.go: the node server of the image volume   *)
(* driver.  NodePublishVolume provisions a container with the image tool,  *)
(* asks the tool for the container's root and bind-mounts that root at the *)
(* target path; NodeUnpublishVolume unmounts the target and deletes the    *)
(* container.  Every tool invocation goes through runCmd, which arms a     *)
(* timer that only sets a flag.                                            *)
(*                                                                         *)
(* The host is modelled by three pieces of state the code only reaches     *)
(* through calls: the mount table, the set of existing target directories  *)
(* and the image tool's set of containers.  Each handler is a sequence of  *)
(* steps (one per blocking call it makes), so that the timer callback and  *)
(* the external process can interleave with it.                            *)
(***************************************************************************)
EXTENDS Naturals, Sequences, FiniteSets, TLC

(***************************************************************************)
(* Input domains                                                           *)
(***************************************************************************)
Procs == {1, 2}            \* execution contexts the RPC framework may use
SeqProcs == {1}            \* the contexts used when calls are serialized

VolumeIds == {"v1", "v2"}
Targets == {"/mnt/x", "/mnt/y"}
Images == {"repo/app:latest"}
FlagSets == {<<>>, <<"noexec">>}

Buildah == "/bin/buildah"
ExecPathInit == ""         \* ns.execPath before the first call writes it

\* Byte strings are sequences of one-character strings.
WhiteSpace == {" ", "\n", "\t", "\r"}
NameBytes(v) == IF v = "v1" THEN <<"v", "1">> ELSE <<"v", "2">>
RootPath(v) == IF v = "v1" THEN <<"/", "a">> ELSE <<"/", "b">>
ErrText == <<"e", "r", "r", "\n">>

\* What the image tool prints when it succeeds.
FromStdout(v) == NameBytes(v) \o <<"\n">>
MountStdout(v) == RootPath(v) \o <<"\n">>
DeleteStdout(v) == NameBytes(v) \o <<"\n">>

NoReq == [kind |-> "none"]
NoCmd == [path |-> "none"]

HistLen == 2               \* completed calls remembered

(***************************************************************************)
(* Pure helpers                                                            *)
(***************************************************************************)
RECURSIVE TrimLeft(_)
TrimLeft(s) ==
    IF s # <<>> /\ Head(s) \in WhiteSpace THEN TrimLeft(Tail(s)) ELSE s

RECURSIVE TrimRight(_)
TrimRight(s) ==
    IF s # <<>> /\ s[Len(s)] \in WhiteSpace
    THEN TrimRight(SubSeq(s, 1, Len(s) - 1))
    ELSE s

\* strings.TrimSpace
TrimSpace(s) == TrimRight(TrimLeft(s))

\* The argument checks of NodePublishVolume, in order; "nil" when they pass.
PublishArgError(r) ==
    IF ~r.hasCap THEN "InvalidArgument"
    ELSE IF r.vid = "" THEN "InvalidArgument"
    ELSE IF r.target = "" THEN "InvalidArgument"
    ELSE "nil"

\* Mutant: the target path check is lost.
UnpublishArgError_NoTarget(r) ==
    IF r.vid = "" THEN "InvalidArgument" ELSE "nil"

\* The argument checks of NodeUnpublishVolume.
UnpublishArgError(r) ==
    IF r.vid = "" THEN "InvalidArgument"
    ELSE IF r.target = "" THEN "InvalidArgument"
    ELSE "nil"

\* Mutant: unsetupVolume keeps the command line of the "mount" invocation.
DeleteArgs_AsMount(volumeId) == <<"mount", volumeId>>

\* The image tool's argument lists.
FromArgs(volumeId, image) == <<"from", "--name", volumeId, "--pull", image>>
MountArgs(volumeId) == <<"mount", volumeId>>
DeleteArgs(volumeId) == <<"delete", volumeId>>

\* Mutant: the read-only indicator is lost.
MountOptions_NoRo(r) == <<"bind">>

\* The option list handed to the bind mount.
MountOptions(r) == IF r.readonly THEN <<"bind", "ro">> ELSE <<"bind">>

\* Mutant: the output is used untrimmed.
ProvisionRoot_NoTrim(output) == output

\* The source path handed to the bind mount: the trimmed output of the
\* tool invocation that preceded it.
ProvisionRoot(output) == TrimSpace(output)

\* What runCmd returns once CombinedOutput has returned (out, execErr) and the
\* timeout flag has been read as seen.
RunCmdResult(out, execErr, seen) ==
    IF execErr # "nil" /\ seen
    THEN [output |-> <<>>, err |-> "Timeout"]
    ELSE [output |-> out, err |-> execErr]

\* The values the unsynchronized read of the timeout flag can yield: the timer
\* callback writes it from another goroutine without synchronization, so after
\* the callback has run the read may still yield the initial value.
ObservedTimeout(c) == IF c.fired THEN {TRUE, FALSE} ELSE {FALSE}

(***************************************************************************)
(* The host, as the code's calls see it                                    *)
(***************************************************************************)
\* The container an image tool command line names.
ToolContainer(args) == IF args[1] = "from" THEN args[3] ELSE args[2]

\* exec.Command(execPath, args...).CombinedOutput(): the ways the process can
\* end, given the tool's containers.  A container name is unique, so "from"
\* cannot succeed for an existing name, and "mount" and "delete" need the
\* container to exist; any invocation can fail.
ToolOutcomes(c, containers) ==
    LET canSucceed ==
            /\ c.path = Buildah
            /\ IF c.args[1] = "from"
               THEN ToolContainer(c.args) \notin containers
               ELSE ToolContainer(c.args) \in containers
    IN  IF canSucceed THEN {"ok", "fail"} ELSE {"fail"}

\* What a successful invocation prints.
ToolStdout(args) ==
    CASE args[1] = "from" -> FromStdout(args[3])
      [] args[1] = "mount" -> MountStdout(args[2])
      [] args[1] = "delete" -> DeleteStdout(args[2])

\* The containers after a successful invocation.
ToolEffect(args, containers) ==
    CASE args[1] = "from" -> containers \cup {args[3]}
      [] args[1] = "mount" -> containers
      [] args[1] = "delete" -> containers \ {args[2]}

\* The paths that exist as container roots.
ExistingRoots(containers) == {RootPath(v) : v \in containers}

\* mount.New("").IsLikelyNotMountPoint(target): the error for a missing
\* directory, another error, or the answer read from the mount table.
QueryOutcomes(target, directories, table) ==
    IF target \notin directories THEN {"notexist"}
    ELSE {"err", IF table[target] = <<>> THEN "notmnt" ELSE "mnt"}

\* mount.New("").Unmount(target)
UnmountOutcomes(target, table) ==
    IF table[target] # <<>> THEN {"ok", "fail"} ELSE {"fail"}

\* mounter.Mount(source, target, "", options): a bind mount needs an existing
\* source and target.
MountOutcomes(source, target, containers, directories) ==
    IF source \in ExistingRoots(containers) /\ target \in directories
    THEN {"ok", "fail"}
    ELSE {"fail"}

(***************************************************************************)
(* State                                                                   *)
(***************************************************************************)
VARIABLES
    mounted,    \* mount table: target -> stack of bind sources mounted there
    dirs,       \* the target directories that exist
    roots,      \* the image tool's containers, by name
    execPath,   \* ns.execPath
    Timeout,    \* ns.Timeout
    call,       \* per execution context: the call in flight and its position
    hist        \* summaries of the last completed calls, oldest first

vars == <<mounted, dirs, roots, execPath, Timeout, call, hist>>

IdleCall ==
    [pc |-> "idle", req |-> NoReq, cmd |-> NoCmd, log |-> <<>>,
     res |-> "none", root |-> <<>>, premnt |-> FALSE]

\* Requests with a missing field carry the default flags only.
PublishRequests ==
    {r \in [kind : {"publish"}, hasCap : BOOLEAN, vid : VolumeIds \cup {""},
            target : Targets \cup {""}, image : Images, readonly : BOOLEAN,
            flags : FlagSets] :
        (~r.hasCap \/ r.vid = "" \/ r.target = "") =>
            (~r.readonly /\ r.flags = <<>>)}

UnpublishRequests ==
    [kind : {"unpublish"}, vid : VolumeIds \cup {""}, target : Targets \cup {""}]

Init ==
    /\ mounted = [t \in Targets |-> <<>>]
    /\ dirs \in SUBSET Targets
    /\ roots = {}
    /\ execPath = ExecPathInit
    /\ Timeout \in {0, 1}
    /\ call = [p \in Procs |-> IdleCall]
    /\ hist = <<>>

\* runCmd up to the start of the process: the timer is armed when Timeout > 0.
StartCmd(path, args) ==
    [path |-> path, args |-> args, armed |-> Timeout > 0, fired |-> FALSE,
     exited |-> FALSE, execErr |-> "nil", out |-> <<>>]

\* The call ends with result res.
Finish(c, res) == [c EXCEPT !.pc = "done", !.res = res, !.cmd = NoCmd]

\* The call invokes the image tool with args and waits for it at pc.
Invoke(c, pc, path, args) ==
    [c EXCEPT !.pc = pc, !.cmd = StartCmd(path, args),
              !.log = Append(c.log, <<"exec", path, args>>)]

IsMounted(target) == target \in Targets /\ mounted[target] # <<>>

\* The entries of log whose operation is op, in order.
OpsOf(log, op) == SelectSeq(log, LAMBDA e : e[1] = op)

\* The number of bind mounts that log shows to have succeeded.
Mounts(log) == Len(SelectSeq(log, LAMBDA e : e[1] = "mount" /\ e[5] = "ok"))

\* Whether log shows a "from" invocation that succeeded.
Provisioned(log) ==
    \E i \in 1..(Len(log) - 1) :
        /\ log[i][1] = "exec" /\ log[i][3][1] = "from"
        /\ log[i + 1][1] = "exit" /\ log[i + 1][2] = "ok"

\* What is remembered of a completed call.
Summary(c) ==
    [kind |-> c.req.kind, vid |-> c.req.vid, target |-> c.req.target,
     ok |-> c.res = "OK", mounts |-> Mounts(c.log),
     provisioned |-> Provisioned(c.log)]

Remember(h, e) ==
    IF Len(h) < HistLen THEN Append(h, e) ELSE Append(Tail(h), e)

(***************************************************************************)
(* runCmd: the external process and the timer                              *)
(***************************************************************************)
WaitPcs == {"setup_wait", "mnt_wait", "del_wait"}

\* The timer callback of runCmd: it sets the flag and nothing else.  The
\* deferred timer.Stop() disarms it when runCmd returns.
TimerFire(p) ==
    /\ call[p].pc \in WaitPcs
    /\ call[p].cmd.armed
    /\ ~call[p].cmd.fired
    /\ call' = [call EXCEPT ![p].cmd.fired = TRUE]
    /\ UNCHANGED <<mounted, dirs, roots, execPath, Timeout, hist>>

\* The external process ends: CombinedOutput has its output and exit status.
\* The log entry notes whether the timer had expired by then.
ProcExit(p) ==
    /\ call[p].pc \in WaitPcs
    /\ ~call[p].cmd.exited
    /\ \E o \in ToolOutcomes(call[p].cmd, roots) :
        LET c == call[p]
            out == IF o = "ok" THEN ToolStdout(c.cmd.args) ELSE ErrText
        IN  /\ call' = [call EXCEPT
                  ![p].cmd.exited = TRUE,
                  ![p].cmd.execErr = IF o = "ok" THEN "nil" ELSE "ExecError",
                  ![p].cmd.out = out,
                  ![p].log = Append(c.log, <<"exit", o, out, c.cmd.fired>>)]
            /\ roots' = IF o = "ok" THEN ToolEffect(c.cmd.args, roots) ELSE roots
    /\ UNCHANGED <<mounted, dirs, execPath, Timeout, hist>>

\* The results runCmd can return for the finished process of call c.
RunCmdResults(c) ==
    {RunCmdResult(c.cmd.out, c.cmd.execErr, seen) : seen \in ObservedTimeout(c.cmd)}

\* runCmd returns r to call c.
Returned(c, r) ==
    [c EXCEPT !.cmd = NoCmd, !.log = Append(c.log, <<"ret", r.output, r.err>>)]

(***************************************************************************)
(* NodePublishVolume                                                       *)
(***************************************************************************)
\* Argument checks, then setupVolume up to the start of "from".
NodePublishVolume(p, r) ==
    /\ call[p].pc = "idle"
    /\ LET c0 == [IdleCall EXCEPT !.req = r, !.premnt = IsMounted(r.target)]
       IN  IF PublishArgError(r) # "nil"
           THEN /\ call' = [call EXCEPT ![p] = Finish(c0, PublishArgError(r))]
                /\ UNCHANGED execPath
           ELSE /\ execPath' = Buildah
                /\ call' = [call EXCEPT ![p] =
                       Invoke(c0, "setup_wait", execPath', FromArgs(r.vid, r.image))]
    /\ UNCHANGED <<mounted, dirs, roots, Timeout, hist>>

\* Mutant: setupVolume's error is dropped and the call goes on.
SetupVolumeReturn_IgnoreErr(p) ==
    /\ call[p].pc = "setup_wait"
    /\ call[p].cmd.exited
    /\ \E r \in RunCmdResults(call[p]) :
        call' = [call EXCEPT ![p] = [Returned(call[p], r) EXCEPT !.pc = "pub_check"]]
    /\ UNCHANGED <<mounted, dirs, roots, execPath, Timeout, hist>>

\* setupVolume returns runCmd's error; the output is only logged.
SetupVolumeReturn(p) ==
    /\ call[p].pc = "setup_wait"
    /\ call[p].cmd.exited
    /\ \E r \in RunCmdResults(call[p]) :
        LET c1 == Returned(call[p], r)
        IN  call' = [call EXCEPT ![p] =
                IF r.err # "nil" THEN Finish(c1, r.err)
                ELSE [c1 EXCEPT !.pc = "pub_check"]]
    /\ UNCHANGED <<mounted, dirs, roots, execPath, Timeout, hist>>

\* Mutant: the early return for a mounted target is lost.
SkipsMount_Never(notMnt) == FALSE

\* Whether NodePublishVolume returns success without mounting.
SkipsMount(notMnt) == ~notMnt

\* The mount-point query, the creation of a missing target, the early return
\* for a mounted target, and otherwise the start of "mount".
PubCheckMount(p) ==
    /\ call[p].pc = "pub_check"
    /\ LET c == call[p]
           t == c.req.target
       IN  \E q \in QueryOutcomes(t, dirs, mounted) :
            LET c1 == [c EXCEPT !.log = Append(c.log, <<"query", t, q>>)]
            IN
            CASE q = "notexist" ->
                    \E mk \in {"ok", "fail"} :
                        LET c2 == [c1 EXCEPT !.log = Append(c1.log, <<"mkdir", t, mk>>)]
                        IN
                        IF mk = "fail"
                        THEN /\ call' = [call EXCEPT ![p] = Finish(c2, "Internal")]
                             /\ UNCHANGED <<dirs, execPath>>
                        ELSE /\ dirs' = dirs \cup {t}
                             /\ execPath' = Buildah
                             /\ call' = [call EXCEPT ![p] =
                                    Invoke(c2, "mnt_wait", execPath', MountArgs(c.req.vid))]
              [] q = "err" ->
                    /\ call' = [call EXCEPT ![p] = Finish(c1, "Internal")]
                    /\ UNCHANGED <<dirs, execPath>>
              [] q \in {"mnt", "notmnt"} ->
                    IF SkipsMount(q = "notmnt")
                    THEN /\ call' = [call EXCEPT ![p] = Finish(c1, "OK")]
                         /\ UNCHANGED <<dirs, execPath>>
                    ELSE /\ execPath' = Buildah
                         /\ call' = [call EXCEPT ![p] =
                                Invoke(c1, "mnt_wait", execPath', MountArgs(c.req.vid))]
                         /\ UNCHANGED dirs
    /\ UNCHANGED <<mounted, roots, Timeout, hist>>

\* runCmd returns from "mount": the error is dropped, the output is trimmed.
PubMountCmdReturn(p) ==
    /\ call[p].pc = "mnt_wait"
    /\ call[p].cmd.exited
    /\ \E r \in RunCmdResults(call[p]) :
        call' = [call EXCEPT ![p] =
            [Returned(call[p], r) EXCEPT !.pc = "pub_mount",
                                         !.root = ProvisionRoot(r.output)]]
    /\ UNCHANGED <<mounted, dirs, roots, execPath, Timeout, hist>>

\* The bind mount of the provisioned root onto the target.
PubMount(p) ==
    /\ call[p].pc = "pub_mount"
    /\ LET c == call[p]
           t == c.req.target
       IN  \E m \in MountOutcomes(c.root, t, roots, dirs) :
            LET c1 == [c EXCEPT !.log =
                    Append(c.log, <<"mount", c.root, t, MountOptions(c.req), m>>)]
            IN
            IF m = "ok"
            THEN /\ mounted' = [mounted EXCEPT ![t] = Append(@, c.root)]
                 /\ call' = [call EXCEPT ![p] = Finish(c1, "OK")]
            ELSE /\ call' = [call EXCEPT ![p] = Finish(c1, "MountError")]
                 /\ UNCHANGED mounted
    /\ UNCHANGED <<dirs, roots, execPath, Timeout, hist>>

(***************************************************************************)
(* NodeUnpublishVolume                                                     *)
(***************************************************************************)
\* Mutant: the condition is inverted.
NeedsUnmount_Inverted(notMnt) == notMnt

\* Whether NodeUnpublishVolume unmounts the target.
NeedsUnmount(notMnt) == ~notMnt

\* Argument checks and the mount-point query; for a target that is not
\* mounted, unsetupVolume up to the start of "delete".
NodeUnpublishVolume(p, r) ==
    /\ call[p].pc = "idle"
    /\ LET c0 == [IdleCall EXCEPT !.req = r, !.premnt = IsMounted(r.target)]
       IN  IF UnpublishArgError(r) # "nil"
           THEN /\ call' = [call EXCEPT ![p] = Finish(c0, UnpublishArgError(r))]
                /\ UNCHANGED execPath
           ELSE \E q \in QueryOutcomes(r.target, dirs, mounted) :
                LET c1 == [c0 EXCEPT !.log = <<<<"query", r.target, q>>>>]
                IN
                IF q \in {"notexist", "err"}
                THEN /\ call' = [call EXCEPT ![p] = Finish(c1, "Internal")]
                     /\ UNCHANGED execPath
                ELSE IF NeedsUnmount(q = "notmnt")
                THEN /\ call' = [call EXCEPT ![p] = [c1 EXCEPT !.pc = "unpub_unmount"]]
                     /\ UNCHANGED execPath
                ELSE /\ execPath' = Buildah
                     /\ call' = [call EXCEPT ![p] =
                            Invoke(c1, "del_wait", execPath', DeleteArgs(r.vid))]
    /\ UNCHANGED <<mounted, dirs, roots, Timeout, hist>>

\* The unmount of a mounted target, then unsetupVolume up to the start of
\* "delete".
UnpubUnmount(p) ==
    /\ call[p].pc = "unpub_unmount"
    /\ LET c == call[p]
           t == c.req.target
       IN  \E u \in UnmountOutcomes(t, mounted) :
            LET c1 == [c EXCEPT !.log = Append(c.log, <<"unmount", t, u>>)]
            IN
            IF u = "ok"
            THEN /\ mounted' = [mounted EXCEPT ![t] = SubSeq(@, 1, Len(@) - 1)]
                 /\ execPath' = Buildah
                 /\ call' = [call EXCEPT ![p] =
                        Invoke(c1, "del_wait", execPath', DeleteArgs(c.req.vid))]
            ELSE /\ call' = [call EXCEPT ![p] = Finish(c1, "Internal")]
                 /\ UNCHANGED <<mounted, execPath>>
    /\ UNCHANGED <<dirs, roots, Timeout, hist>>

\* Mutant: unsetupVolume's error is dropped and the call succeeds.
UnsetupVolumeReturn_IgnoreErr(p) ==
    /\ call[p].pc = "del_wait"
    /\ call[p].cmd.exited
    /\ \E r \in RunCmdResults(call[p]) :
        call' = [call EXCEPT ![p] = Finish(Returned(call[p], r), "OK")]
    /\ UNCHANGED <<mounted, dirs, roots, execPath, Timeout, hist>>

\* unsetupVolume returns runCmd's error, which is the call's result.
UnsetupVolumeReturn(p) ==
    /\ call[p].pc = "del_wait"
    /\ call[p].cmd.exited
    /\ \E r \in RunCmdResults(call[p]) :
        call' = [call EXCEPT ![p] =
            Finish(Returned(call[p], r), IF r.err # "nil" THEN r.err ELSE "OK")]
    /\ UNCHANGED <<mounted, dirs, roots, execPath, Timeout, hist>>

\* The response goes back to the caller; the context is free again.
Respond(p) ==
    /\ call[p].pc = "done"
    /\ call' = [call EXCEPT ![p] = IdleCall]
    /\ UNCHANGED <<mounted, dirs, roots, execPath, Timeout, hist>>

\* The same step, with the completed call remembered in hist.
RespondRecorded(p) ==
    /\ call[p].pc = "done"
    /\ hist' = Remember(hist, Summary(call[p]))
    /\ call' = [call EXCEPT ![p] = IdleCall]
    /\ UNCHANGED <<mounted, dirs, roots, execPath, Timeout>>

(***************************************************************************)
(* Specifications                                                          *)
(***************************************************************************)
\* The steps of a call once it has begun.
Step(p) ==
    \/ TimerFire(p)
    \/ ProcExit(p)
    \/ SetupVolumeReturn(p)
    \/ PubCheckMount(p)
    \/ PubMountCmdReturn(p)
    \/ PubMount(p)
    \/ UnpubUnmount(p)
    \/ UnsetupVolumeReturn(p)

\* Calls are executed one at a time.
Next ==
    \E p \in SeqProcs :
        \/ \E r \in PublishRequests : NodePublishVolume(p, r)
        \/ \E r \in UnpublishRequests : NodeUnpublishVolume(p, r)
        \/ Step(p)
        \/ Respond(p)

Spec == Init /\ [][Next]_vars

\* The steps the handler's own goroutine and the runtime's timer take are
\* taken eventually; nothing makes the external process end, and nothing
\* makes the orchestrator send another call.
Fairness ==
    \A p \in SeqProcs :
        /\ WF_vars(TimerFire(p))
        /\ WF_vars(SetupVolumeReturn(p))
        /\ WF_vars(PubCheckMount(p))
        /\ WF_vars(PubMountCmdReturn(p))
        /\ WF_vars(PubMount(p))
        /\ WF_vars(UnpubUnmount(p))
        /\ WF_vars(UnsetupVolumeReturn(p))
        /\ WF_vars(Respond(p))

FairSpec == Spec /\ Fairness

\* The requests of HistSpec: they name one target, at most one required field
\* is missing, and a publish request carries the default flags (which no step
\* before the bind mount reads).
HistRequest(q) ==
    /\ q.target \in {"", "/mnt/x"}
    /\ Cardinality({f \in {"vid", "target"} : q[f] = ""})
         + (IF q.kind = "publish" /\ ~q.hasCap THEN 1 ELSE 0) <= 1
    /\ q.kind = "publish" => (~q.readonly /\ q.flags = <<>>)

\* Calls are executed one at a time and the completed calls are remembered.
HistNext ==
    \E p \in SeqProcs :
        \/ \E r \in {q \in PublishRequests : HistRequest(q)} :
              NodePublishVolume(p, r)
        \/ \E r \in {q \in UnpublishRequests : HistRequest(q)} :
              NodeUnpublishVolume(p, r)
        \/ Step(p)
        \/ RespondRecorded(p)

HistSpec == Init /\ [][HistNext]_vars

(***************************************************************************)
(* Properties                                                              *)
(***************************************************************************)
\* Requests that pass the argument checks, stated from the request fields.
ValidPublish(r) ==
    r.kind = "publish" /\ r.hasCap /\ r.vid # "" /\ r.target # ""

ValidUnpublish(r) == r.kind = "unpublish" /\ r.vid # "" /\ r.target # ""

Last(h) == h[Len(h)]

\* Summary e is a call of the given kind, volume and target.
IsCall(e, kind, vid, target) ==
    e.kind = kind /\ e.vid = vid /\ e.target = target

\* C1: with calls executed one at a time, no target is bind-mounted while it
\* is mounted (its mount stack never holds two mounts); a publish call that
\* succeeds on a target that was not mounted performs exactly one bind mount;
\* and two consecutive valid publish calls with the same volume and target
\* perform at most one bind mount between them: once the first has mounted
\* the target, the second does not even attempt a mount.
C1_NoDoubleMount ==
    /\ \A t \in Targets : Len(mounted[t]) <= 1
    /\ \A p \in Procs :
        LET c == call[p]
        IN  (c.pc = "done" /\ ValidPublish(c.req)) =>
              /\ (c.res = "OK" /\ ~c.premnt) => Mounts(c.log) = 1
              /\ (hist # <<>> /\ IsCall(Last(hist), "publish", c.req.vid, c.req.target)) =>
                    /\ Last(hist).mounts + Mounts(c.log) <= 1
                    /\ Last(hist).mounts = 1 => OpsOf(c.log, "mount") = <<>>

\* C1 witness: a second consecutive publish of the same volume and target has
\* completed after the first one mounted the target.
C1_Witness ==
    \E p \in Procs :
        LET c == call[p]
        IN  /\ c.pc = "done" /\ ValidPublish(c.req)
            /\ hist # <<>>
            /\ IsCall(Last(hist), "publish", c.req.vid, c.req.target)
            /\ Last(hist).ok /\ Last(hist).mounts = 1
            /\ Len(mounted[c.req.target]) = 1

\* The last two completed calls are a successful publish and a successful
\* unpublish of volume vid at target.
RoundTrip(h, vid, target) ==
    /\ Len(h) >= 2
    /\ IsCall(h[Len(h) - 1], "publish", vid, target) /\ h[Len(h) - 1].ok
    /\ IsCall(h[Len(h)], "unpublish", vid, target) /\ h[Len(h)].ok

\* C3: a successful unpublish that follows a successful publish of the same
\* volume and target leaves the target unmounted and the volume's container
\* released; a publish of the same volume that comes next starts from the
\* state a first publish starts from (target not mounted, no container of
\* that name when "from" runs), and when it succeeds it has provisioned the
\* container anew and bind-mounted its root, exactly once.
C3_RoundTrip ==
    \A p \in Procs :
        LET c == call[p]
            v == c.req.vid
            t == c.req.target
        IN  /\ ( /\ c.pc = "done" /\ ValidUnpublish(c.req) /\ c.res = "OK"
                 /\ hist # <<>> /\ IsCall(Last(hist), "publish", v, t)
                 /\ Last(hist).ok )
                => (~IsMounted(t) /\ v \notin roots)
            /\ (ValidPublish(c.req) /\ RoundTrip(hist, v, t)) =>
                 /\ ~c.premnt
                 /\ (c.pc = "setup_wait" /\ ~c.cmd.exited) => v \notin roots
                 /\ (c.pc = "done" /\ c.res = "OK") =>
                       /\ Provisioned(c.log)
                       /\ Mounts(c.log) = 1
                       /\ mounted[t] = <<RootPath(v)>>
                       /\ v \in roots

\* C3 witness: the publish that follows a round trip has succeeded.
C3_Witness ==
    \E p \in Procs :
        LET c == call[p]
        IN  /\ ValidPublish(c.req)
            /\ RoundTrip(hist, c.req.vid, c.req.target)
            /\ c.pc = "done" /\ c.res = "OK"

\* Every image tool invocation that log shows to have ended, ended well.
AllExitsOk(log) == \A i \in 1..Len(log) : log[i][1] = "exit" => log[i][2] = "ok"

\* Log shows an invocation that changed the tool's set of containers.
ChangedRoots(log) ==
    \E i \in 1..(Len(log) - 1) :
        /\ log[i][1] = "exec" /\ log[i][3][1] \in {"from", "delete"}
        /\ log[i + 1][1] = "exit" /\ log[i + 1][2] = "ok"

\* The mount-point query of the call did not fail for a reason other than a
\* missing directory.
QueryAnswered(log) ==
    \A i \in 1..Len(log) : log[i][1] = "query" => log[i][3] # "err"

\* C2 (as claimed, for the calls whose query and tool invocations all succeed): a valid
\* publish call whose target is already a mount point returns success and
\* changes neither the mount table nor the image tool's set of containers.
C2_MountedPublishIsNoOp ==
    \A p \in Procs :
        LET c == call[p]
        IN  ( /\ c.pc = "done" /\ ValidPublish(c.req) /\ c.premnt
              /\ AllExitsOk(c.log) /\ QueryAnswered(c.log) ) =>
              /\ c.res = "OK"
              /\ OpsOf(c.log, "mount") = <<>>
              /\ ~ChangedRoots(c.log)

\* Log shows the release invocation for volume vid.
ReleaseIssued(log, vid) ==
    \E i \in 1..Len(log) : log[i] = <<"exec", Buildah, <<"delete", vid>>>>

\* C4 (as claimed): a valid unpublish call whose target is not mounted
\* performs no unmount and still issues "delete <volumeId>", also when the
\* target directory does not exist.
C4_UnmountedUnpublishReleases ==
    \A p \in Procs :
        LET c == call[p]
        IN  (c.pc = "done" /\ ValidUnpublish(c.req) /\ ~c.premnt /\ QueryAnswered(c.log)) =>
              /\ OpsOf(c.log, "unmount") = <<>>
              /\ ReleaseIssued(c.log, c.req.vid)

\* No completed call has bind-mounted target: hist still holds every
\* completed call and none of them mounted it.
NeverMounted(target) ==
    /\ Len(hist) < HistLen
    /\ \A i \in 1..Len(hist) : hist[i].target = target => hist[i].mounts = 0

\* C5 (as claimed, for the calls in which neither the query nor the tool
\* fails for a reason of its own): a valid unpublish call against a target
\* that was never mounted attempts no unmount and returns success.
C5_NeverMountedUnpublishSucceeds ==
    \A p \in Procs :
        LET c == call[p]
        IN  ( /\ c.pc = "done" /\ ValidUnpublish(c.req)
              /\ NeverMounted(c.req.target) /\ ~c.premnt
              /\ QueryAnswered(c.log) /\ AllExitsOk(c.log) ) =>
              /\ OpsOf(c.log, "unmount") = <<>>
              /\ c.res = "OK"

\* A required field of the request is missing.
MissingField(r) ==
    \/ r.kind = "publish" /\ (~r.hasCap \/ r.vid = "" \/ r.target = "")
    \/ r.kind = "unpublish" /\ (r.vid = "" \/ r.target = "")

\* C6: a call whose request misses a required field ends in the step that
\* receives it, with InvalidArgument: it has invoked no process, made no
\* query, created no directory and mounted or unmounted nothing, and the
\* mount table, the directories, the containers and execPath are unchanged.
C6_ValidationFirst ==
    [][\A p \in Procs :
          (call[p].pc = "idle" /\ call'[p].pc # "idle" /\ MissingField(call'[p].req)) =>
             /\ call'[p].pc = "done"
             /\ call'[p].res = "InvalidArgument"
             /\ call'[p].log = <<>>
             /\ UNCHANGED <<mounted, dirs, roots, execPath>>]_vars

\* C6 witness: an unpublish call without a target path has been rejected
\* while some target was mounted.
C6_Witness ==
    \E p \in Procs :
        /\ call[p].pc = "done"
        /\ call[p].req.kind = "unpublish" /\ call[p].req.target = ""
        /\ call[p].res = "InvalidArgument"
        /\ \E t \in Targets : IsMounted(t)

\* C7 (as claimed): whenever the timer has expired before the process ends,
\* runCmd returns the Timeout error.
C7_LateExitIsTimeout ==
    \A p \in Procs :
        LET log == call[p].log
        IN  \A i \in 1..(Len(log) - 1) :
              (log[i][1] = "exit" /\ log[i][4] /\ log[i + 1][1] = "ret") =>
                 log[i + 1][3] = "Timeout"

\* C8 (as claimed): with a positive Timeout, a call that waits in runCmd
\* leaves runCmd, whether or not the process ever ends.
C8_RunCmdReturns ==
    \A p \in Procs :
        (call[p].pc \in WaitPcs /\ Timeout > 0) ~> (call[p].pc \notin WaitPcs)

\* The unmounts and tool invocations of log, in order.
UnmountsAndExecs(log) == SelectSeq(log, LAMBDA e : e[1] \in {"unmount", "exec"})

\* C9: in a valid unpublish call whose target is mounted, the release
\* invocation is issued only after the one unmount of the target has
\* succeeded, and a call that returns success has performed exactly that
\* unmount followed by exactly one "delete <volumeId>".
C9_UnmountThenRelease ==
    \A p \in Procs :
        LET c == call[p]
            ops == UnmountsAndExecs(c.log)
            expected == << <<"unmount", c.req.target, "ok">>,
                           <<"exec", Buildah, <<"delete", c.req.vid>>>> >>
        IN  (ValidUnpublish(c.req) /\ c.premnt) =>
              /\ Len(OpsOf(c.log, "unmount")) <= 1
              /\ OpsOf(c.log, "exec") # <<>> => ops = expected
              /\ (c.pc = "done" /\ c.res = "OK") => ops = expected

\* C9 witness: an unpublish call of a mounted target has returned success.
C9_Witness ==
    \E p \in Procs :
        /\ ValidUnpublish(call[p].req) /\ call[p].premnt
        /\ call[p].pc = "done" /\ call[p].res = "OK"

ErrorClass(res) ==
    IF res \in {"OK", "InvalidArgument", "Internal"} THEN res ELSE "Unknown"

\* C11 (as claimed): a call that fails reports InvalidArgument when a required
\* field is missing and Internal otherwise.
C11_TwoErrorClasses ==
    \A p \in Procs :
        LET c == call[p]
        IN  (c.pc = "done" /\ c.res # "OK") =>
              ErrorClass(c.res) =
                 (IF MissingField(c.req) THEN "InvalidArgument" ELSE "Internal")

\* C12 (as claimed, for the calls whose query does not fail for a reason
\* other than a missing directory): when a publish call has failed after its
\* "from" invocation succeeded and has left the target unmounted, the next
\* call, an unpublish of the same volume and target, issues "delete
\* <volumeId>".
C12_UnpublishCleansUp ==
    \A p \in Procs :
        LET c == call[p]
        IN  ( /\ c.pc = "done" /\ ValidUnpublish(c.req) /\ ~c.premnt
              /\ hist # <<>>
              /\ IsCall(Last(hist), "publish", c.req.vid, c.req.target)
              /\ ~Last(hist).ok /\ Last(hist).provisioned
              /\ QueryAnswered(c.log) ) =>
              ReleaseIssued(c.log, c.req.vid)

\* Log shows a "from" invocation for volume vid.
ProvisionIssued(log, vid) ==
    \E i \in 1..Len(log) :
        /\ log[i][1] = "exec" /\ log[i][3][1] = "from" /\ log[i][3][3] = vid

\* C13 (as claimed): once a publish call has provisioned a volume and
\* succeeded, a publish call for the same volume that follows it with no
\* unpublish in between issues no further "from" invocation.
C13_ProvisionOnce ==
    \A p \in Procs :
        LET c == call[p]
        IN  ( /\ ValidPublish(c.req)
              /\ hist # <<>>
              /\ IsCall(Last(hist), "publish", c.req.vid, c.req.target)
              /\ Last(hist).ok /\ Last(hist).provisioned ) =>
              ~ProvisionIssued(c.log, c.req.vid)

(***************************************************************************)
(* Calls that overlap                                                      *)
(***************************************************************************)
\* The requests of ConcSpec: valid requests that name one volume and one
\* target, a publish request with the default flags.
ConcRequest(q) ==
    /\ q.vid = "v1" /\ q.target = "/mnt/x"
    /\ q.kind = "publish" => (q.hasCap /\ ~q.readonly /\ q.flags = <<>>)

\* Each call runs in a goroutine of its own; the handlers take no lock, so
\* the steps of two calls interleave freely.
ConcNext ==
    \E p \in Procs :
        \/ \E r \in {q \in PublishRequests : ConcRequest(q)} :
              NodePublishVolume(p, r)
        \/ \E r \in {q \in UnpublishRequests : ConcRequest(q)} :
              NodeUnpublishVolume(p, r)
        \/ Step(p)
        \/ Respond(p)

ConcSpec == Init /\ [][ConcNext]_vars

\* The number of "from" invocations for vid that log shows.
ProvisionCount(log, vid) ==
    Len(SelectSeq(log, LAMBDA e :
            e[1] = "exec" /\ e[3][1] = "from" /\ e[3][3] = vid))

\* C19 (as claimed): while two publish calls for the same volume and target
\* are both under way, the target is bind-mounted at most once and the two
\* calls together have issued at most one "from" invocation for the volume.
C19_ConcurrentPublish ==
    \A p, q \in Procs :
        LET c == call[p]
            d == call[q]
        IN  ( /\ p # q
              /\ ValidPublish(c.req) /\ ValidPublish(d.req)
              /\ c.req.vid = d.req.vid /\ c.req.target = d.req.target ) =>
              /\ Len(mounted[c.req.target]) <= 1
              /\ ProvisionCount(c.log, c.req.vid)
                    + ProvisionCount(d.log, d.req.vid) <= 1

(***************************************************************************)
(* Order and content of the steps of one call                              *)
(***************************************************************************)
\* The steps of NodePublishVolume that follow setupVolume.
AfterProvisioning(e) == e[1] \in {"query", "mkdir", "mount"}

\* log begins with the invocation of "from" for vid, its exit with status
\* outcome and runCmd's return.
ProvisioningEnded(log, vid, outcome) ==
    /\ Len(log) >= 3
    /\ log[1][1] = "exec" /\ log[1][3][1] = "from" /\ log[1][3][3] = vid
    /\ log[2][1] = "exit" /\ log[2][2] = outcome
    /\ log[3][1] = "ret"

\* C14: within a publish call, the mount-point query, the creation of the
\* target and the bind mount come only after the "from" invocation for the
\* call's volume has ended with success and runCmd has returned no error; a
\* call whose "from" invocation failed (runCmd returned the process's error or
\* the timeout error) stops there and ends in failure.
C14_MountAfterProvisioning ==
    \A p \in Procs :
        LET c == call[p]
        IN  ValidPublish(c.req) =>
              /\ \A i \in 1..Len(c.log) :
                    AfterProvisioning(c.log[i]) =>
                        /\ i > 3
                        /\ ProvisioningEnded(c.log, c.req.vid, "ok")
                        /\ c.log[3][3] = "nil"
              /\ ( ProvisioningEnded(c.log, c.req.vid, "fail")
                    \/ (Len(c.log) >= 3 /\ c.log[3][1] = "ret" /\ c.log[3][3] # "nil") ) =>
                        /\ c.pc = "done"
                        /\ c.res \in {"ExecError", "Timeout"}
                        /\ Len(c.log) = 3

\* A publish call has ended in failure after its "from" invocation failed.
C14_Witness ==
    \E p \in Procs :
        /\ call[p].pc = "done" /\ ValidPublish(call[p].req)
        /\ ProvisioningEnded(call[p].log, call[p].req.vid, "fail")
        /\ call[p].res # "OK"

\* Whether option list opts has the entry o.
HasOption(opts, o) == \E i \in 1..Len(opts) : opts[i] = o

\* C15: the options of every bind mount of a publish call contain "bind", and
\* contain "ro" exactly when the request's readonly flag is set.
C15_BindAndReadOnly ==
    \A p \in Procs :
        LET c == call[p]
        IN  \A i \in 1..Len(c.log) :
                c.log[i][1] = "mount" =>
                    /\ HasOption(c.log[i][4], "bind")
                    /\ HasOption(c.log[i][4], "ro") <=> c.req.readonly

\* A read-only publish call has made its bind mount.
C15_Witness ==
    \E p \in Procs :
        /\ call[p].pc = "done" /\ ValidPublish(call[p].req)
        /\ call[p].req.readonly /\ call[p].res = "OK"
        /\ \E i \in 1..Len(call[p].log) :
              call[p].log[i][1] = "mount" /\ call[p].log[i][5] = "ok"

\* The option list the claim describes for request r.
OptionsWithFlags(r) ==
    <<"bind">> \o (IF r.readonly THEN <<"ro">> ELSE <<>>) \o r.flags

\* C16 (as claimed): the options of every bind mount of a publish call are
\* "bind", then "ro" for a read-only request, then the request's mount flags
\* as they were given.
C16_FlagsAppended ==
    \A p \in Procs :
        LET c == call[p]
        IN  \A i \in 1..Len(c.log) :
                c.log[i][1] = "mount" => c.log[i][4] = OptionsWithFlags(c.req)

\* Whether log shows that the invocation of "delete" for vid ended with success.
ReleaseSucceeded(log, vid) ==
    \E i \in 1..(Len(log) - 1) :
        /\ log[i][1] = "exec" /\ log[i][3] = <<"delete", vid>>
        /\ log[i + 1][1] = "exit" /\ log[i + 1][2] = "ok"

\* Whether log shows a mount-point query or an unmount that failed.
FirstStepFailed(log) ==
    \E i \in 1..Len(log) :
        \/ log[i][1] = "query" /\ log[i][3] \in {"err", "notexist"}
        \/ log[i][1] = "unmount" /\ log[i][3] # "ok"

\* C17: an unpublish call that has returned success leaves the target not
\* mounted and has issued a "delete" for its volume that ended with success;
\* an unpublish call whose mount-point query or unmount failed has returned
\* Internal and has invoked nothing.
C17_SuccessNeedsBothSteps ==
    \A p \in Procs :
        LET c == call[p]
        IN  (c.pc = "done" /\ ValidUnpublish(c.req)) =>
              /\ c.res = "OK" =>
                    /\ ~IsMounted(c.req.target)
                    /\ ReleaseSucceeded(c.log, c.req.vid)
                    /\ ~FirstStepFailed(c.log)
              /\ FirstStepFailed(c.log) =>
                    /\ c.res = "Internal"
                    /\ OpsOf(c.log, "exec") = <<>>

\* An unpublish call of a mounted target has returned success.
C17_Witness ==
    \E p \in Procs :
        /\ call[p].pc = "done" /\ ValidUnpublish(call[p].req)
        /\ call[p].premnt /\ call[p].res = "OK"

\* Whether the entry of log before index i that ends the "mount" invocation
\* for vid shows it to have succeeded.
SourceInvocationSucceeded(log, vid, i) ==
    \E j \in 1..(i - 2) :
        /\ log[j][1] = "exec" /\ log[j][3] = <<"mount", vid>>
        /\ log[j + 1][1] = "exit" /\ log[j + 1][2] = "ok"
        /\ log[j + 2][1] = "ret" /\ log[j + 2][3] = "nil"

\* C18 (as claimed): a publish call hands a source to the bind mount only
\* when the "mount" invocation that yields the source has succeeded.
C18_MountNeedsSource ==
    \A p \in Procs :
        LET c == call[p]
        IN  \A i \in 1..Len(c.log) :
                c.log[i][1] = "mount" =>
                    SourceInvocationSucceeded(c.log, c.req.vid, i)

====
